---- MODULE Spec2Model ----
(***************************************************************************)
(* Model of the F1 standings tracker: the prediction store with its        *)
(* swap-on-write setters, the resolution of a cell (actual result or       *)
(* predicted position), the totals, the collapsed-column set and the data  *)
(* refresh, as implemented in public/js/app.js, utils/pointsCalculator.js  *)
(* (which also carries PredictionManager), components/tableRenderer.js and *)
(* services/apiService.js.                                                 *)
(*                                                                         *)
(* JavaScript values: positions and points are integers; null, undefined   *)
(* and NaN are the three negative sentinels below, so that parseInt and    *)
(* the comparisons of the code can be modelled by what they do on them.    *)
(* An object is a function whose DOMAIN is the set of its keys.  The order *)
(* in which Object.entries walks the keys (insertion order) is not kept:   *)
(* where the code takes the first entry that matches, the model lets any   *)
(* matching entry be the first.                                            *)
(***************************************************************************)
EXTENDS Integers, Sequences, FiniteSets, TLC

VARIABLES
    driversData,              \* app.driversData
    racesData,                \* app.racesData
    raceResults,              \* app.raceResults
    sprintResults,            \* app.sprintResults
    qualifyingResults,        \* app.qualifyingResults
    sprintQualifyingResults,  \* app.sprintQualifyingResults
    userPredictions,          \* predictionManager.userPredictions
    sprintPredictions,        \* predictionManager.sprintPredictions
    collapsedColumns,         \* tableRenderer.collapsedColumns
    container,                \* what tableRenderer.container shows: "empty",
                              \* "loading", "error" or "table"
    inFlight,                 \* loadData calls awaiting loadAllData
    exported,                 \* the object exportPredictions returned last, as its
                              \* caller holds it
    lastOp                    \* the handler that ran last: "swap" for a prediction
                              \* write that swapped two predictions, "past" and
                              \* "future" for toggleAllPast and toggleAllFuture,
                              \* "other" for every other handler

vars == <<driversData, racesData, raceResults, sprintResults, qualifyingResults,
          sprintQualifyingResults, userPredictions, sprintPredictions,
          collapsedColumns, container, inFlight, lastOp, exported>>

dataVars == <<driversData, racesData, raceResults, sprintResults,
              qualifyingResults, sprintQualifyingResults>>

-----------------------------------------------------------------------------
(* JavaScript values *)

Null == -1
Undefined == -2
NaN == -3

\* parseInt of a number (or a numeric string) is the number; of null or
\* undefined it is NaN.
parseInt(v) == IF v >= 0 THEN v ELSE NaN

\* x > 0 as JavaScript evaluates it: false for NaN, undefined and null.
GreaterThanZero(v) == (v # NaN) /\ (v # Undefined) /\ (v # Null) /\ (v > 0)

\* An object keyed by round: has it a (truthy) value for the round?
HasRound(obj, round) == round \in DOMAIN obj

\* An object keyed by driver id: a function whose DOMAIN is the set of its keys.
HasOwnProperty(obj, driverId) == driverId \in DOMAIN obj

GetProperty(obj, driverId) ==
    IF HasOwnProperty(obj, driverId) THEN obj[driverId] ELSE Undefined

SetProperty(obj, driverId, v) ==
    [d \in (DOMAIN obj) \cup {driverId} |-> IF d = driverId THEN v ELSE obj[d]]

EmptyObject == [d \in {} |-> Undefined]

\* Array.prototype.find on a list of records carrying a driverId: the index
\* of the first match, 0 when there is none.
FindIndex(list, driverId) ==
    IF \E i \in 1..Len(list) : list[i].driverId = driverId
    THEN CHOOSE i \in 1..Len(list) :
            /\ list[i].driverId = driverId
            /\ \A j \in 1..(i - 1) : list[j].driverId # driverId
    ELSE 0

-----------------------------------------------------------------------------
(* Scoring tables *)

POINTS_SYSTEM ==
    <<25, 18, 15, 12, 10, 8, 6, 4, 2, 1>>

SPRINT_POINTS_SYSTEM ==
    <<8, 7, 6, 5, 4, 3, 2, 1>>

\* getRacePoints with a table that stops at the ninth place.
getRacePoints_NineScore(position) ==
    IF position \in 1..9 THEN POINTS_SYSTEM[position] ELSE 0

getRacePoints(position) ==
    IF position \in DOMAIN POINTS_SYSTEM THEN POINTS_SYSTEM[position] ELSE 0

getSprintPoints(position) ==
    IF position \in DOMAIN SPRINT_POINTS_SYSTEM THEN SPRINT_POINTS_SYSTEM[position] ELSE 0

-----------------------------------------------------------------------------
(* Actual results *)

NoResult == [isActual |-> FALSE, position |-> Null, points |-> 0]

\* The result of an entry with the listed position kept for a retirement.
ResultOf_KeepsPosition(entry) ==
    [isActual |-> TRUE,
     position |-> parseInt(entry.position),
     points   |-> parseInt(entry.points)]

\* The result of an entry with its points recomputed from the scoring table.
ResultOf_TablePoints(entry) ==
    [isActual |-> TRUE,
     position |-> parseInt(IF entry.positionText = "R" THEN 0 ELSE entry.position),
     points   |-> getRacePoints(IF entry.positionText = "R" THEN 0 ELSE entry.position)]

ResultOf(entry) ==
    [isActual |-> TRUE,
     position |-> parseInt(IF entry.positionText = "R" THEN 0 ELSE entry.position),
     points   |-> parseInt(entry.points)]

\* null is modelled as NoResult, whose isActual is FALSE.
getDriverRaceResult(driverId, round, results) ==
    IF HasRound(results, round) /\ FindIndex(results[round], driverId) # 0
    THEN ResultOf(results[round][FindIndex(results[round], driverId)])
    ELSE NoResult

getDriverSprintResult(driverId, round, results) ==
    IF HasRound(results, round) /\ FindIndex(results[round], driverId) # 0
    THEN ResultOf(results[round][FindIndex(results[round], driverId)])
    ELSE NoResult

-----------------------------------------------------------------------------
(* PredictionManager *)

\* getPredictedPosition with two of its decisions left open: whether a
\* driver missing from a published qualifying order gets 0, and the lowest
\* championship position that serves as a default.
PredictedPositionVariant(driverId, round, isSprint, uPred, sPred, qual, sprintQual, drivers, missingGetsZero, lastDefault) ==
    LET predictions == IF isSprint THEN sPred ELSE uPred
        qualResults == IF isSprint THEN sprintQual ELSE qual
        d           == FindIndex(drivers, driverId)
        q           == IF HasRound(qualResults, round)
                       THEN FindIndex(qualResults[round], driverId) ELSE 0
    IN  IF HasRound(predictions, round) /\ HasOwnProperty(predictions[round], driverId)
        THEN LET pos == GetProperty(predictions[round], driverId)
             IN  IF pos = Null THEN 0 ELSE parseInt(pos)
        ELSE IF q # 0
        THEN parseInt(qualResults[round][q].position)
        ELSE IF HasRound(qualResults, round) /\ missingGetsZero
        THEN 0
        ELSE IF d = 0 \/ drivers[d].position > lastDefault
        THEN 0
        ELSE drivers[d].position

\* A driver missing from the qualifying order falls back to the championship
\* position.
getPredictedPosition_MissingFallsBack(driverId, round, isSprint, uPred, sPred, qual, sprintQual, drivers) ==
    PredictedPositionVariant(driverId, round, isSprint, uPred, sPred, qual, sprintQual,
                             drivers, FALSE, 20)

\* The championship default stops at the 19th place.
getPredictedPosition_Top19(driverId, round, isSprint, uPred, sPred, qual, sprintQual, drivers) ==
    PredictedPositionVariant(driverId, round, isSprint, uPred, sPred, qual, sprintQual,
                             drivers, TRUE, 19)

\* The championship default reaches the 21st place.
getPredictedPosition_Top21(driverId, round, isSprint, uPred, sPred, qual, sprintQual, drivers) ==
    PredictedPositionVariant(driverId, round, isSprint, uPred, sPred, qual, sprintQual,
                             drivers, TRUE, 21)

\* The stored entry tested for truthiness instead of hasOwnProperty: an
\* entry of null is passed over and the defaults apply.
getPredictedPosition_TruthyEntry(driverId, round, isSprint, uPred, sPred, qual, sprintQual, drivers) ==
    LET predictions == IF isSprint THEN sPred ELSE uPred
        nullEntry   == /\ HasRound(predictions, round)
                       /\ HasOwnProperty(predictions[round], driverId)
                       /\ GetProperty(predictions[round], driverId) = Null
    IN  IF nullEntry
        THEN PredictedPositionVariant(driverId, round, isSprint, << >>, << >>, qual,
                                      sprintQual, drivers, TRUE, 20)
        ELSE PredictedPositionVariant(driverId, round, isSprint, uPred, sPred, qual,
                                      sprintQual, drivers, TRUE, 20)

getPredictedPosition(driverId, round, isSprint, uPred, sPred, qual, sprintQual, drivers) ==
    LET predictions == IF isSprint THEN sPred ELSE uPred
        qualResults == IF isSprint THEN sprintQual ELSE qual
        d           == FindIndex(drivers, driverId)
    IN  IF HasRound(predictions, round) /\ HasOwnProperty(predictions[round], driverId)
        THEN LET pos == GetProperty(predictions[round], driverId)
             IN  IF pos = Null THEN 0 ELSE parseInt(pos)
        ELSE IF HasRound(qualResults, round)
        THEN LET q == FindIndex(qualResults[round], driverId)
             IN  IF q # 0 THEN parseInt(qualResults[round][q].position) ELSE 0
        ELSE IF d = 0 \/ drivers[d].position > 20
        THEN 0
        ELSE drivers[d].position

\* updatePrediction rebuilding the mapping around the round written.
PM_updatePrediction_DropsOtherRounds(predictions, driverId, round, position) ==
    [r \in {round} |->
        SetProperty(IF HasRound(predictions, round) THEN predictions[round] ELSE EmptyObject,
                    driverId, position)]

PM_updatePrediction(predictions, driverId, round, position) ==
    LET obj == IF HasRound(predictions, round) THEN predictions[round] ELSE EmptyObject
    IN  [r \in (DOMAIN predictions) \cup {round} |->
            IF r = round THEN SetProperty(obj, driverId, position) ELSE predictions[r]]

PM_updateSprintPrediction(predictions, driverId, round, position) ==
    LET obj == IF HasRound(predictions, round) THEN predictions[round] ELSE EmptyObject
    IN  [r \in (DOMAIN predictions) \cup {round} |->
            IF r = round THEN SetProperty(obj, driverId, position) ELSE predictions[r]]

EmptyPredictions == [r \in {} |-> EmptyObject]

NoRounds == [r \in {} |-> <<>>]

resetPredictions == EmptyPredictions

-----------------------------------------------------------------------------
(* Totals *)

\* A column id: `race-${round}`, `sprint-${round}`, or a synthetic id, whose
\* round is 0.
ColumnId(type, round) == <<type, round>>

\* The points one race of the schedule adds for the driver: the body of the
\* loop of calculateTotalPoints.
SprintPart(driverId, race, data, uPred, sPred, collapsed) ==
    IF race.Sprint /\ ColumnId("sprint", race.round) \notin collapsed
    THEN LET sprintResult == getDriverSprintResult(driverId, race.round, data.sprintResults)
         IN  IF sprintResult.isActual
             THEN sprintResult.points
             ELSE LET predictedPos ==
                        getPredictedPosition(driverId, race.round, TRUE, uPred, sPred,
                            data.qualifyingResults, data.sprintQualifyingResults,
                            data.driversData)
                  IN  IF GreaterThanZero(predictedPos)
                      THEN getSprintPoints(predictedPos) ELSE 0
    ELSE 0

RacePart(driverId, race, data, uPred, sPred, collapsed) ==
    IF ColumnId("race", race.round) \notin collapsed
    THEN LET raceResult == getDriverRaceResult(driverId, race.round, data.raceResults)
         IN  IF raceResult.isActual
             THEN raceResult.points
             ELSE LET predictedPos ==
                        getPredictedPosition(driverId, race.round, FALSE, uPred, sPred,
                            data.qualifyingResults, data.sprintQualifyingResults,
                            data.driversData)
                  IN  IF GreaterThanZero(predictedPos)
                      THEN getRacePoints(predictedPos) ELSE 0
    ELSE 0

RECURSIVE TotalFrom(_, _, _, _, _, _)
TotalFrom(i, driverId, data, uPred, sPred, collapsed) ==
    IF i > Len(data.racesData)
    THEN 0
    ELSE SprintPart(driverId, data.racesData[i], data, uPred, sPred, collapsed)
         + RacePart(driverId, data.racesData[i], data, uPred, sPred, collapsed)
         + TotalFrom(i + 1, driverId, data, uPred, sPred, collapsed)

calculateTotalPoints(driverId, data, uPred, sPred, collapsed) ==
    TotalFrom(1, driverId, data, uPred, sPred, collapsed)

-----------------------------------------------------------------------------
(* TableRenderer.render *)

\* Array.prototype.sort with (a, b) => b.calculatedPoints - a.calculatedPoints:
\* a stable sort, so a row goes after every row already placed that has at
\* least its points.
\* A sort that puts a row before the rows already placed that have its points.
InsertRow_TiesFirst(sorted, row) ==
    LET before == {i \in 1..Len(sorted) : sorted[i].calculatedPoints > row.calculatedPoints}
        k      == IF before = {} THEN 0 ELSE CHOOSE i \in before : \A j \in before : j <= i
    IN  SubSeq(sorted, 1, k) \o <<row>> \o SubSeq(sorted, k + 1, Len(sorted))

InsertRow(sorted, row) ==
    LET before == {i \in 1..Len(sorted) : sorted[i].calculatedPoints >= row.calculatedPoints}
        k      == IF before = {} THEN 0 ELSE CHOOSE i \in before : \A j \in before : j <= i
    IN  SubSeq(sorted, 1, k) \o <<row>> \o SubSeq(sorted, k + 1, Len(sorted))

RECURSIVE SortRows(_, _)
SortRows(rows, n) ==
    IF n = 0 THEN <<>> ELSE InsertRow(SortRows(rows, n - 1), rows[n])

\* The rows of the table: driversWithPoints after the sort.
render(data, uPred, sPred, collapsed) ==
    LET driversWithPoints ==
            [i \in 1..Len(data.driversData) |->
                [driverId |-> data.driversData[i].driverId,
                 calculatedPoints |->
                    calculateTotalPoints(data.driversData[i].driverId, data,
                                         uPred, sPred, collapsed)]]
    IN  SortRows(driversWithPoints, Len(driversWithPoints))

AppData ==
    [driversData |-> driversData, racesData |-> racesData,
     raceResults |-> raceResults, sprintResults |-> sprintResults,
     qualifyingResults |-> qualifyingResults,
     sprintQualifyingResults |-> sprintQualifyingResults]

\* renderRaceCell / renderSprintCell: what the cell of a driver shows: the
\* actual result ("result", position 0 being DNF), a static dash for a driver
\* who did not take part ("dash"), or a <select> preset to the predicted
\* position ("select").
renderRaceCell(driverId, round, data, uPred, sPred) ==
    LET raceResult == getDriverRaceResult(driverId, round, data.raceResults)
    IN  IF HasRound(data.raceResults, round)
        THEN IF raceResult.isActual
             THEN [cell |-> "result", position |-> raceResult.position]
             ELSE [cell |-> "dash", position |-> Null]
        ELSE [cell |-> "select",
              position |-> getPredictedPosition(driverId, round, FALSE, uPred, sPred,
                                data.qualifyingResults, data.sprintQualifyingResults,
                                data.driversData)]

renderSprintCell(driverId, round, data, uPred, sPred) ==
    LET sprintResult == getDriverSprintResult(driverId, round, data.sprintResults)
    IN  IF HasRound(data.sprintResults, round)
        THEN IF sprintResult.isActual
             THEN [cell |-> "result", position |-> sprintResult.position]
             ELSE [cell |-> "dash", position |-> Null]
        ELSE [cell |-> "select",
              position |-> getPredictedPosition(driverId, round, TRUE, uPred, sPred,
                                data.qualifyingResults, data.sprintQualifyingResults,
                                data.driversData)]

\* renderTable: the rows the container holds whenever it shows the table.
\* Every handler that changes the data, the predictions or the collapsed set
\* ends with renderTable, so the table shown is always the one rendered
\* from the current state.
renderTable == render(AppData, userPredictions, sprintPredictions, collapsedColumns)

-----------------------------------------------------------------------------
(* TableRenderer.getOrderedColumns *)

\* The column list before the sort: for each race in schedule order, the
\* sprint column of a sprint weekend, then the race column.
RECURSIVE BuildColumns(_, _, _, _, _)
BuildColumns(n, races, raceRes, sprintRes, collapsed) ==
    IF n = 0
    THEN <<>>
    ELSE LET round  == races[n].round
             sprint == [type        |-> "sprint",
                        round       |-> round,
                        isCollapsed |-> ColumnId("sprint", round) \in collapsed,
                        isFuture    |-> ~HasRound(sprintRes, round)]
             race   == [type        |-> "race",
                        round       |-> round,
                        isCollapsed |-> ColumnId("race", round) \in collapsed,
                        isFuture    |-> ~HasRound(raceRes, round)]
         IN  BuildColumns(n - 1, races, raceRes, sprintRes, collapsed)
                \o (IF races[n].Sprint THEN <<sprint>> ELSE <<>>) \o <<race>>

\* The comparator handed to sort: 0 for two columns in the same state, 1 when
\* a is collapsed and b is not, -1 the other way round.
CompareColumns(a, b) ==
    IF a.isCollapsed = b.isCollapsed THEN 0 ELSE IF a.isCollapsed THEN 1 ELSE -1

\* Array.prototype.sort is stable: a column goes after every column already
\* placed that the comparator does not put behind it.
InsertColumn(sorted, col) ==
    LET before == {i \in 1..Len(sorted) : CompareColumns(sorted[i], col) <= 0}
        k      == IF before = {} THEN 0 ELSE CHOOSE i \in before : \A j \in before : j <= i
    IN  SubSeq(sorted, 1, k) \o <<col>> \o SubSeq(sorted, k + 1, Len(sorted))

RECURSIVE SortColumns(_, _)
SortColumns(columns, n) ==
    IF n = 0 THEN <<>> ELSE InsertColumn(SortColumns(columns, n - 1), columns[n])

\* getOrderedColumns returning the column list as built, without the sort.
getOrderedColumns_Unsorted(races, raceRes, sprintRes, collapsed) ==
    BuildColumns(Len(races), races, raceRes, sprintRes, collapsed)

getOrderedColumns(races, raceRes, sprintRes, collapsed) ==
    LET columns == BuildColumns(Len(races), races, raceRes, sprintRes, collapsed)
    IN  SortColumns(columns, Len(columns))

-----------------------------------------------------------------------------
(* F1StandingsApp: the swap-on-write setters *)

NoDriver == "none"

\* The value the handler writes: '0' becomes null, any other option its number.
WrittenPos(position) == IF position = 0 THEN Null ELSE parseInt(position)

\* The other drivers whose stored prediction for the round parses to pos: the
\* entries the loop of updatePrediction can stop at.
Holders(predictions, driverId, round, position) ==
    LET pos == WrittenPos(position)
    IN  IF GreaterThanZero(pos) /\ HasRound(predictions, round)
        THEN {o \in DOMAIN predictions[round] :
                o # driverId /\ parseInt(predictions[round][o]) = pos}
        ELSE {}

\* The entry the loop stops at: any holder, NoDriver when there is none.
FirstHolders(predictions, driverId, round, position) ==
    IF Holders(predictions, driverId, round, position) = {}
    THEN {NoDriver}
    ELSE Holders(predictions, driverId, round, position)

\* updatePrediction without the loop that looks for a holder: a plain write.
App_updatePrediction_NoSwap(predictions, driverId, round, position, otherDriverId) ==
    PM_updatePrediction(predictions, driverId, round, WrittenPos(position))

\* updatePrediction clearing the holder instead of handing it the old position.
App_updatePrediction_ClearHolder(predictions, driverId, round, position, otherDriverId) ==
    LET pos     == WrittenPos(position)
        swapped == IF otherDriverId # NoDriver
                   THEN PM_updatePrediction(predictions, otherDriverId, round, Null)
                   ELSE predictions
    IN  PM_updatePrediction(swapped, driverId, round, pos)

\* updatePrediction without the break: every holder found is handed the
\* writer's old position.
App_updatePrediction_AllHolders(predictions, driverId, round, position, otherDriverId) ==
    LET pos     == WrittenPos(position)
        hs      == Holders(predictions, driverId, round, position)
        obj     == IF HasRound(predictions, round) THEN predictions[round] ELSE EmptyObject
        oldPos  == GetProperty(obj, driverId)
        swapped == IF hs = {}
                   THEN predictions
                   ELSE [predictions EXCEPT
                            ![round] = [d \in DOMAIN obj |-> IF d \in hs THEN oldPos ELSE obj[d]]]
    IN  PM_updatePrediction(swapped, driverId, round, pos)

App_updatePrediction(predictions, driverId, round, position, otherDriverId) ==
    LET pos     == WrittenPos(position)
        obj     == IF HasRound(predictions, round) THEN predictions[round] ELSE EmptyObject
        oldPos  == GetProperty(obj, driverId)
        swapped == IF otherDriverId # NoDriver
                   THEN PM_updatePrediction(predictions, otherDriverId, round, oldPos)
                   ELSE predictions
    IN  PM_updatePrediction(swapped, driverId, round, pos)

App_updateSprintPrediction(predictions, driverId, round, position, otherDriverId) ==
    LET pos     == WrittenPos(position)
        obj     == IF HasRound(predictions, round) THEN predictions[round] ELSE EmptyObject
        oldPos  == GetProperty(obj, driverId)
        swapped == IF otherDriverId # NoDriver
                   THEN PM_updateSprintPrediction(predictions, otherDriverId, round, oldPos)
                   ELSE predictions
    IN  PM_updateSprintPrediction(swapped, driverId, round, pos)

-----------------------------------------------------------------------------
(* What the rendered table offers *)

RowDrivers == {driversData[i].driverId : i \in 1..Len(driversData)}

ScheduleRounds == {racesData[i].round : i \in 1..Len(racesData)}

SprintRounds == {racesData[i].round : i \in {j \in 1..Len(racesData) : racesData[j].Sprint}}

\* renderRaceCell / renderSprintCell put a <select> in the cell only when the
\* round has no result list.
HasRaceSelect(driverId, round) ==
    /\ container = "table"
    /\ driverId \in RowDrivers
    /\ round \in ScheduleRounds
    /\ ~HasRound(raceResults, round)

HasSprintSelect(driverId, round) ==
    /\ container = "table"
    /\ driverId \in RowDrivers
    /\ round \in SprintRounds
    /\ ~HasRound(sprintResults, round)

-----------------------------------------------------------------------------
(* PredictionManager.exportPredictions and its caller *)

\* exportPredictions returns an object whose two properties are the very
\* objects the store holds, not copies.  `exported` keeps what the caller
\* sees in them and, per mapping, whether the object is still the one the
\* store holds (userShared, sprintShared): it is until the store is given
\* another object by resetPredictions or importPredictions.
NotExported ==
    [taken |-> FALSE,
     userPredictions |-> EmptyPredictions, sprintPredictions |-> EmptyPredictions,
     userShared |-> FALSE, sprintShared |-> FALSE]

exportPredictions(uPred, sPred) ==
    [taken |-> TRUE,
     userPredictions |-> uPred, sprintPredictions |-> sPred,
     userShared |-> TRUE, sprintShared |-> TRUE]

\* updatePrediction and updateSprintPrediction of the manager assign into the
\* objects the store holds: an exported object that is shared shows the write.
ExportedAfterWrite(uPred, sPred) ==
    [exported EXCEPT
        !.userPredictions   = IF exported.userShared THEN uPred ELSE @,
        !.sprintPredictions = IF exported.sprintShared THEN sPred ELSE @]

-----------------------------------------------------------------------------
(* Handlers *)

\* loadData up to its await: the loading message replaces the table.
LoadStart(maxInFlight) ==
    /\ inFlight < maxInFlight
    /\ inFlight' = inFlight + 1
    /\ container' = "loading"
    /\ lastOp' = "other"
    /\ UNCHANGED <<dataVars, userPredictions, sprintPredictions, collapsedColumns, exported>>

DriversOf(standings) ==
    [i \in 1..Len(standings) |->
        [driverId      |-> standings[i].driverId,
         position      |-> parseInt(standings[i].position),
         currentPoints |-> parseInt(standings[i].points)]]

\* loadData starting from a fresh prediction store when the data arrive.
LoadComplete_DropsPredictions(data) ==
    /\ inFlight > 0
    /\ inFlight' = inFlight - 1
    /\ driversData' = DriversOf(data.standings)
    /\ racesData' = data.races
    /\ raceResults' = data.raceResults
    /\ sprintResults' = data.sprintResults
    /\ qualifyingResults' = data.qualifyingResults
    /\ sprintQualifyingResults' = data.sprintQualifyingResults
    /\ userPredictions' = resetPredictions
    /\ sprintPredictions' = resetPredictions
    /\ container' = "table"
    /\ lastOp' = "other"
    /\ UNCHANGED <<collapsedColumns, exported>>

\* loadData storing the standings, the schedule and the results of the data
\* that arrive, the qualifying data staying those of the load before.
LoadComplete_KeepsQualifying(data) ==
    /\ inFlight > 0
    /\ inFlight' = inFlight - 1
    /\ driversData' = DriversOf(data.standings)
    /\ racesData' = data.races
    /\ raceResults' = data.raceResults
    /\ sprintResults' = data.sprintResults
    /\ container' = "table"
    /\ lastOp' = "other"
    /\ UNCHANGED <<qualifyingResults, sprintQualifyingResults,
                   userPredictions, sprintPredictions, collapsedColumns, exported>>

\* loadData after its await, loadAllData having resolved with `data`.
LoadComplete(data) ==
    /\ inFlight > 0
    /\ inFlight' = inFlight - 1
    /\ driversData' = DriversOf(data.standings)
    /\ racesData' = data.races
    /\ raceResults' = data.raceResults
    /\ sprintResults' = data.sprintResults
    /\ qualifyingResults' = data.qualifyingResults
    /\ sprintQualifyingResults' = data.sprintQualifyingResults
    /\ container' = "table"
    /\ lastOp' = "other"
    /\ UNCHANGED <<userPredictions, sprintPredictions, collapsedColumns, exported>>

\* The catch branch of loadData emptying the results it could not refresh.
LoadFail_DropsResults ==
    /\ inFlight > 0
    /\ inFlight' = inFlight - 1
    /\ raceResults' = NoRounds
    /\ sprintResults' = NoRounds
    /\ container' = "error"
    /\ lastOp' = "other"
    /\ UNCHANGED <<driversData, racesData, qualifyingResults, sprintQualifyingResults,
                   userPredictions, sprintPredictions, collapsedColumns, exported>>

\* loadData after its await, loadAllData having rejected: the catch branch.
LoadFail ==
    /\ inFlight > 0
    /\ inFlight' = inFlight - 1
    /\ container' = "error"
    /\ lastOp' = "other"
    /\ UNCHANGED <<dataVars, userPredictions, sprintPredictions, collapsedColumns, exported>>

UpdatePrediction(driverId, round, position) ==
    /\ HasRaceSelect(driverId, round)
    /\ \E other \in FirstHolders(userPredictions, driverId, round, position) :
        /\ userPredictions' =
                App_updatePrediction(userPredictions, driverId, round, position, other)
        /\ lastOp' = IF other = NoDriver THEN "other" ELSE "swap"
    /\ exported' = ExportedAfterWrite(userPredictions', sprintPredictions)
    /\ container' = "table"
    /\ UNCHANGED <<dataVars, sprintPredictions, collapsedColumns, inFlight>>

UpdateSprintPrediction(driverId, round, position) ==
    /\ HasSprintSelect(driverId, round)
    /\ \E other \in FirstHolders(sprintPredictions, driverId, round, position) :
        /\ sprintPredictions' =
                App_updateSprintPrediction(sprintPredictions, driverId, round, position, other)
        /\ lastOp' = IF other = NoDriver THEN "other" ELSE "swap"
    /\ exported' = ExportedAfterWrite(userPredictions, sprintPredictions')
    /\ container' = "table"
    /\ UNCHANGED <<dataVars, userPredictions, collapsedColumns, inFlight>>

ResetPredictions ==
    /\ userPredictions' = resetPredictions
    /\ sprintPredictions' = resetPredictions
    /\ exported' = [exported EXCEPT !.userShared = FALSE, !.sprintShared = FALSE]
    /\ container' = "table"
    /\ lastOp' = "other"
    /\ UNCHANGED <<dataVars, collapsedColumns, inFlight>>

toggleColumn(collapsed, columnId) ==
    IF columnId \in collapsed THEN collapsed \ {columnId} ELSE collapsed \cup {columnId}

\* The first loop of toggleAllFuture: is the race column of a round without
\* race results visible?  Sprint columns are not looked at.
anyFutureVisible(collapsed, races, raceRes) ==
    \E i \in 1..Len(races) :
        ~HasRound(raceRes, races[i].round) /\ ColumnId("race", races[i].round) \notin collapsed

\* The column keys the second loop and the tail of toggleAllFuture add or delete.
FutureKeys(races, raceRes, sprintRes) ==
    {ColumnId("race", races[i].round) :
        i \in {j \in 1..Len(races) : ~HasRound(raceRes, races[j].round)}}
      \cup {ColumnId("sprint", races[i].round) :
        i \in {j \in 1..Len(races) : races[j].Sprint /\ ~HasRound(sprintRes, races[j].round)}}
      \cup {ColumnId("predicted-points", 0), ColumnId("predicted-standing", 0)}

\* toggleAllFuture leaving 'predicted-standing' collapsed when it expands.
toggleAllFuture_KeepsStanding(collapsed, races, raceRes, sprintRes) ==
    [collapsed |-> IF anyFutureVisible(collapsed, races, raceRes)
                   THEN collapsed \cup FutureKeys(races, raceRes, sprintRes)
                   ELSE collapsed \ (FutureKeys(races, raceRes, sprintRes)
                                        \ {ColumnId("predicted-standing", 0)}),
     returns   |-> anyFutureVisible(collapsed, races, raceRes)]

\* toggleAllFuture walking over every race column, resolved or not.
toggleAllFuture_EveryRace(collapsed, races, raceRes, sprintRes) ==
    LET keys == FutureKeys(races, raceRes, sprintRes)
                    \cup {ColumnId("race", races[i].round) : i \in 1..Len(races)}
    IN  [collapsed |-> IF anyFutureVisible(collapsed, races, raceRes)
                       THEN collapsed \cup keys ELSE collapsed \ keys,
         returns   |-> anyFutureVisible(collapsed, races, raceRes)]

toggleAllFuture(collapsed, races, raceRes, sprintRes) ==
    [collapsed |-> IF anyFutureVisible(collapsed, races, raceRes)
                   THEN collapsed \cup FutureKeys(races, raceRes, sprintRes)
                   ELSE collapsed \ FutureKeys(races, raceRes, sprintRes),
     returns   |-> anyFutureVisible(collapsed, races, raceRes)]

\* The first loop of toggleAllPast: is the race column of a round with race
\* results visible?
anyPastVisible(collapsed, races, raceRes) ==
    \E i \in 1..Len(races) :
        HasRound(raceRes, races[i].round) /\ ColumnId("race", races[i].round) \notin collapsed

PastKeys(races, raceRes, sprintRes) ==
    {ColumnId("race", races[i].round) :
        i \in {j \in 1..Len(races) : HasRound(raceRes, races[j].round)}}
      \cup {ColumnId("sprint", races[i].round) :
        i \in {j \in 1..Len(races) : races[j].Sprint /\ HasRound(sprintRes, races[j].round)}}

\* toggleAllPast toggling the projected-points column as toggleAllFuture does.
toggleAllPast_WithProjected(collapsed, races, raceRes, sprintRes) ==
    LET keys == PastKeys(races, raceRes, sprintRes) \cup {ColumnId("predicted-points", 0)}
    IN  [collapsed |-> IF anyPastVisible(collapsed, races, raceRes)
                       THEN collapsed \cup keys ELSE collapsed \ keys,
         returns   |-> anyPastVisible(collapsed, races, raceRes)]

toggleAllPast(collapsed, races, raceRes, sprintRes) ==
    [collapsed |-> IF anyPastVisible(collapsed, races, raceRes)
                   THEN collapsed \cup PastKeys(races, raceRes, sprintRes)
                   ELSE collapsed \ PastKeys(races, raceRes, sprintRes),
     returns   |-> anyPastVisible(collapsed, races, raceRes)]

\* The headers renderHeader makes clickable.
HeaderColumns ==
    {ColumnId("race", r) : r \in ScheduleRounds}
        \cup {ColumnId("sprint", r) : r \in SprintRounds}
        \cup {ColumnId("gap-leader", 0), ColumnId("gap-ahead", 0),
              ColumnId("predicted-points", 0)}

ToggleColumn(columnId) ==
    /\ container = "table"
    /\ columnId \in HeaderColumns
    /\ collapsedColumns' = toggleColumn(collapsedColumns, columnId)
    /\ container' = "table"
    /\ lastOp' = "other"
    /\ UNCHANGED <<dataVars, userPredictions, sprintPredictions, inFlight, exported>>

\* The toggle-future button: toggleAllFuture, then renderTable.
ToggleAllFuture ==
    /\ collapsedColumns' =
            toggleAllFuture(collapsedColumns, racesData, raceResults, sprintResults).collapsed
    /\ container' = "table"
    /\ lastOp' = "future"
    /\ UNCHANGED <<dataVars, userPredictions, sprintPredictions, inFlight, exported>>

\* The toggle-past button: toggleAllPast, then renderTable.
ToggleAllPast ==
    /\ collapsedColumns' =
            toggleAllPast(collapsedColumns, racesData, raceResults, sprintResults).collapsed
    /\ container' = "table"
    /\ lastOp' = "past"
    /\ UNCHANGED <<dataVars, userPredictions, sprintPredictions, inFlight, exported>>

\* A call of predictionManager.exportPredictions: the caller now holds the
\* returned object.  Nothing is rendered.
ExportPredictions ==
    /\ exported' = exportPredictions(userPredictions, sprintPredictions)
    /\ lastOp' = "other"
    /\ UNCHANGED <<dataVars, userPredictions, sprintPredictions, collapsedColumns,
                   container, inFlight>>

\* importPredictions: each mapping the data object carries (any object, {}
\* included, is truthy) replaces the one of the store; a mapping it does not
\* carry leaves the store's as it is.
importPredictions(uPred, sPred, data) ==
    [userPredictions   |-> IF data.hasUser THEN data.userPredictions ELSE uPred,
     sprintPredictions |-> IF data.hasSprint THEN data.sprintPredictions ELSE sPred]

\* The exported object handed back as import data.
ExportedData ==
    [hasUser |-> TRUE, userPredictions |-> exported.userPredictions,
     hasSprint |-> TRUE, sprintPredictions |-> exported.sprintPredictions]

\* A call of predictionManager.importPredictions(data); fromExport tells
\* whether data is the object exportPredictions returned (the store then
\* holds the objects of that one) or an object of its own, as parsed from
\* JSON.  Nothing is rendered.
ImportPredictions(data, fromExport) ==
    /\ userPredictions' =
            importPredictions(userPredictions, sprintPredictions, data).userPredictions
    /\ sprintPredictions' =
            importPredictions(userPredictions, sprintPredictions, data).sprintPredictions
    /\ exported' =
            [exported EXCEPT
                !.userShared   = IF data.hasUser THEN fromExport ELSE @,
                !.sprintShared = IF data.hasSprint THEN fromExport ELSE @]
    /\ lastOp' = "other"
    /\ UNCHANGED <<dataVars, collapsedColumns, container, inFlight>>

Init ==
    /\ driversData = <<>>
    /\ racesData = <<>>
    /\ raceResults = NoRounds
    /\ sprintResults = NoRounds
    /\ qualifyingResults = NoRounds
    /\ sprintQualifyingResults = NoRounds
    /\ userPredictions = EmptyPredictions
    /\ sprintPredictions = EmptyPredictions
    /\ collapsedColumns = {}
    /\ container = "empty"
    /\ inFlight = 0
    /\ lastOp = "other"
    /\ exported = NotExported

-----------------------------------------------------------------------------
(* The results provider and F1ApiService.loadAllData *)

\* The season served by the provider: a round and a sprint weekend.  Its
\* sessions run in order (sprint qualifying, sprint, qualifying, race on a
\* sprint weekend; qualifying, race otherwise), and `progress` is the number
\* of sessions that have been held.
Races ==
    <<[round |-> 1, Sprint |-> FALSE],
      [round |-> 2, Sprint |-> TRUE]>>

NumRounds == Len(Races)

Drivers == {"d1", "d2", "d3"}

DriverIds == <<"d1", "d2", "d3">>

RECURSIVE SessionsBefore(_)
SessionsBefore(r) ==
    IF r <= 1 THEN 0 ELSE SessionsBefore(r - 1) + (IF Races[r - 1].Sprint THEN 4 ELSE 2)

MaxProgress == SessionsBefore(NumRounds + 1)

SprintQualifyingHeld(r, progress) == Races[r].Sprint /\ SessionsBefore(r) + 1 <= progress
SprintHeld(r, progress)           == Races[r].Sprint /\ SessionsBefore(r) + 2 <= progress
QualifyingHeld(r, progress) ==
    SessionsBefore(r) + (IF Races[r].Sprint THEN 3 ELSE 1) <= progress
RaceHeld(r, progress) ==
    SessionsBefore(r) + (IF Races[r].Sprint THEN 4 ELSE 2) <= progress

\* The drivers take turns: in round r, Rot(0, r) does well, Rot(1, r) retires
\* from the race, and Rot(2, r) does not take part in the weekend.
Rot(i, r) == DriverIds[((i + r) % 3) + 1]

RaceResultsOf(r) ==
    <<[driverId |-> Rot(0, r), position |-> 1,  positionText |-> "1", points |-> 26],
      [driverId |-> Rot(1, r), position |-> 19, positionText |-> "R", points |-> 0]>>

SprintResultsOf(r) ==
    <<[driverId |-> Rot(1, r), position |-> 1,  positionText |-> "1", points |-> 8],
      [driverId |-> Rot(0, r), position |-> 18, positionText |-> "R", points |-> 0]>>

QualifyingOf(r) ==
    <<[driverId |-> Rot(1, r), position |-> 3],
      [driverId |-> Rot(0, r), position |-> 11]>>

SprintQualifyingOf(r) ==
    <<[driverId |-> Rot(0, r), position |-> 2],
      [driverId |-> Rot(1, r), position |-> 9]>>

\* Two standings lists: one with a driver ranked 21st, one with a driver
\* ranked 20th and a driver missing.
StandingsOf(k) ==
    IF k = 1
    THEN <<[driverId |-> "d1", position |-> 1,  points |-> 51],
           [driverId |-> "d2", position |-> 2,  points |-> 33],
           [driverId |-> "d3", position |-> 21, points |-> 0]>>
    ELSE <<[driverId |-> "d2", position |-> 1,  points |-> 59],
           [driverId |-> "d3", position |-> 20, points |-> 59]>>

StandingsChoices == {1, 2}

\* What the provider answers at a point of the season: a list for every
\* session held, nothing (null) for the others.
Provider(progress, k) ==
    [standings        |-> StandingsOf(k),
     races            |-> Races,
     results          |-> [r \in {x \in 1..NumRounds : RaceHeld(x, progress)}
                            |-> RaceResultsOf(r)],
     sprint           |-> [r \in {x \in 1..NumRounds : SprintHeld(x, progress)}
                            |-> SprintResultsOf(r)],
     qualifying       |-> [r \in {x \in 1..NumRounds : QualifyingHeld(x, progress)}
                            |-> QualifyingOf(r)],
     sprintQualifying |-> [r \in {x \in 1..NumRounds : SprintQualifyingHeld(x, progress)}
                            |-> SprintQualifyingOf(r)]]

RoundsOf(races) == {races[i].round : i \in 1..Len(races)}

SprintRoundsOf(races) == {races[i].round : i \in {j \in 1..Len(races) : races[j].Sprint}}

loadAllData(provider) ==
    LET races   == provider.races
        raceRes == [r \in RoundsOf(races) \cap DOMAIN provider.results
                        |-> provider.results[r]]
        sprintRes == [r \in SprintRoundsOf(races) \cap DOMAIN provider.sprint
                        |-> provider.sprint[r]]
    IN  [standings |-> provider.standings,
         races |-> races,
         raceResults |-> raceRes,
         sprintResults |-> sprintRes,
         qualifyingResults |->
            [r \in (RoundsOf(races) \ DOMAIN raceRes) \cap DOMAIN provider.qualifying
                |-> provider.qualifying[r]],
         sprintQualifyingResults |->
            [r \in (SprintRoundsOf(races) \ DOMAIN sprintRes)
                        \cap DOMAIN provider.sprintQualifying
                |-> provider.sprintQualifying[r]]]

-----------------------------------------------------------------------------
(* Specifications *)

\* The positions a <select> is exercised with: '0' (no prediction) and
\* 1..MaxPick of the 20 it offers.
MaxPick == 2

\* The prediction store under every write: a season in which round 1 has
\* been held and the sprint weekend of round 2 is ahead, loaded once (the
\* load is started again only after it failed).
StoreProgress == {2, 3}

NextStore ==
    \/ LoadStart(1) /\ Len(driversData) = 0
    \/ \E progress \in StoreProgress : LoadComplete(loadAllData(Provider(progress, 1)))
    \/ LoadFail
    \/ \E d \in Drivers, r \in 1..NumRounds, position \in 0..MaxPick :
            UpdatePrediction(d, r, position)
    \/ \E d \in Drivers, r \in 1..NumRounds, position \in 0..MaxPick :
            UpdateSprintPrediction(d, r, position)
    \/ ResetPredictions

SpecStore == Init /\ [][NextStore]_vars

\* The number of stored prediction entries, over both kinds and all rounds.
RECURSIVE CountEntries(_, _)
CountEntries(predictions, rounds) ==
    IF rounds = {}
    THEN 0
    ELSE LET r == CHOOSE x \in rounds : TRUE
         IN  Cardinality(DOMAIN predictions[r]) + CountEntries(predictions, rounds \ {r})

StoredCount(uPred, sPred) ==
    CountEntries(uPred, DOMAIN uPred) + CountEntries(sPred, DOMAIN sPred)

\* The whole application at any point of the season, refreshed at will, with
\* at most MaxStored predictions entered.
MaxStored == 1

Next ==
    \/ LoadStart(1)
    \/ \E progress \in 0..MaxProgress, k \in StandingsChoices :
            LoadComplete(loadAllData(Provider(progress, k)))
    \/ LoadFail
    \/ \E d \in Drivers, r \in 1..NumRounds, position \in 0..MaxPick :
            /\ UpdatePrediction(d, r, position)
            /\ StoredCount(userPredictions', sprintPredictions') <= MaxStored
    \/ \E d \in Drivers, r \in 1..NumRounds, position \in 0..MaxPick :
            /\ UpdateSprintPrediction(d, r, position)
            /\ StoredCount(userPredictions', sprintPredictions') <= MaxStored
    \/ ResetPredictions
    \/ \E r \in 1..NumRounds, type \in {"race", "sprint"} : ToggleColumn(ColumnId(type, r))
    \/ ToggleAllFuture
    \/ ToggleAllPast

Spec == Init /\ [][Next]_vars

\* The prediction store under export and import as well: the season after
\* round 1, loaded once, so that the race and the sprint of round 2 take
\* predictions; entries for round 1 come from imports only.
ImportProgress == {2}

\* The data objects handed to importPredictions: both mappings, the race one
\* giving one position to two drivers and the sprint one empty; the race
\* mapping alone, with entries for rounds 1 and 2; the sprint mapping alone,
\* with a position no <select> offers; neither.
ImportChoices ==
    {[hasUser |-> TRUE,  userPredictions |-> (2 :> [d1 |-> 1, d2 |-> 1, d3 |-> 2]),
      hasSprint |-> TRUE, sprintPredictions |-> EmptyPredictions],
     [hasUser |-> TRUE,
      userPredictions |-> <<[d1 |-> 2], [d1 |-> 1, d2 |-> 2]>>,
      hasSprint |-> FALSE, sprintPredictions |-> EmptyPredictions],
     [hasUser |-> FALSE, userPredictions |-> EmptyPredictions,
      hasSprint |-> TRUE, sprintPredictions |-> (2 :> [d2 |-> 25])],
     [hasUser |-> FALSE, userPredictions |-> EmptyPredictions,
      hasSprint |-> FALSE, sprintPredictions |-> EmptyPredictions]}

\* The sizes of the store a write may leave behind unless it adds no entry,
\* and the sizes of the store an export is taken of.
WriteSizes == 0..1

ExportSizes == 0..1

WriteWithin(sizes) ==
    \/ StoredCount(userPredictions', sprintPredictions') \in sizes
    \/ StoredCount(userPredictions', sprintPredictions')
            <= StoredCount(userPredictions, sprintPredictions)

NextImport ==
    \/ LoadStart(1) /\ Len(driversData) = 0
    \/ \E progress \in ImportProgress : LoadComplete(loadAllData(Provider(progress, 1)))
    \/ LoadFail
    \/ \E d \in Drivers, r \in 1..NumRounds, position \in 0..MaxPick :
            UpdatePrediction(d, r, position) /\ WriteWithin(WriteSizes)
    \/ \E d \in Drivers, r \in 1..NumRounds, position \in 0..MaxPick :
            UpdateSprintPrediction(d, r, position) /\ WriteWithin(WriteSizes)
    \/ ResetPredictions
    \/ ExportPredictions /\ StoredCount(userPredictions, sprintPredictions) \in ExportSizes
    \/ \E data \in ImportChoices : ImportPredictions(data, FALSE)
    \/ exported.taken /\ ImportPredictions(ExportedData, TRUE)
    \/ ToggleColumn(ColumnId("race", NumRounds))

SpecImport == Init /\ [][NextImport]_vars

\* The column handlers on a longer season: the calendar of Races followed by
\* a third round without sprint, whose qualifying and race are the two
\* sessions after the last of Races.
Calendar == Races \o <<[round |-> NumRounds + 1, Sprint |-> FALSE]>>

CalendarProgress == MaxProgress + 2

CalendarProvider(progress, k) ==
    LET base == Provider(progress, k)
        last == NumRounds + 1
    IN  [base EXCEPT
            !.races      = Calendar,
            !.results    = IF progress >= MaxProgress + 2
                           THEN base.results @@ (last :> RaceResultsOf(last))
                           ELSE base.results,
            !.qualifying = IF progress >= MaxProgress + 1
                           THEN base.qualifying @@ (last :> QualifyingOf(last))
                           ELSE base.qualifying]

SyntheticColumns ==
    {ColumnId("gap-leader", 0), ColumnId("gap-ahead", 0),
     ColumnId("predicted-points", 0), ColumnId("predicted-standing", 0)}

CalendarColumns ==
    {ColumnId(type, r) : type \in {"race", "sprint"}, r \in 1..Len(Calendar)}
        \cup SyntheticColumns

NextColumns ==
    \/ LoadStart(1)
    \/ \E progress \in 0..CalendarProgress :
            LoadComplete(loadAllData(CalendarProvider(progress, 1)))
    \/ LoadFail
    \/ \E columnId \in CalendarColumns : ToggleColumn(columnId)
    \/ ToggleAllFuture
    \/ ToggleAllPast

SpecColumns == Init /\ [][NextColumns]_vars

\* The refresh with requests that fail: the calls of loadData that may await
\* loadAllData at a time, and the requests for a round's data whose fetch
\* throws during one loadAllData.  getRaceResults, getSprintResults,
\* getQualifyingResults and getSprintQualifyingResults catch the error and
\* return null, which is what they return for a session not yet held.
MaxInFlight == 2

RequestFailures ==
    {{},
     {<<"results", 1>>},
     {<<"sprint", 2>>},
     {<<"results", 1>>, <<"qualifying", 1>>}}

Answered(answers, kind, failed) ==
    [r \in {x \in DOMAIN answers : <<kind, x>> \notin failed} |-> answers[r]]

FailingProvider(progress, k, failed) ==
    LET base == Provider(progress, k)
    IN  [base EXCEPT
            !.results          = Answered(@, "results", failed),
            !.sprint           = Answered(@, "sprint", failed),
            !.qualifying       = Answered(@, "qualifying", failed),
            !.sprintQualifying = Answered(@, "sprintQualifying", failed)]

\* The data a call of loadAllData may resolve with.
Loads ==
    {loadAllData(FailingProvider(progress, k, failed)) :
        progress \in 0..MaxProgress, k \in StandingsChoices, failed \in RequestFailures}

NextRefresh ==
    \/ LoadStart(MaxInFlight)
    \/ \E data \in Loads : LoadComplete(data)
    \/ LoadFail
    \/ \E d \in Drivers, r \in 1..NumRounds, position \in 0..MaxPick :
            /\ UpdatePrediction(d, r, position)
            /\ StoredCount(userPredictions', sprintPredictions') <= MaxStored
    \/ \E d \in Drivers, r \in 1..NumRounds, position \in 0..MaxPick :
            /\ UpdateSprintPrediction(d, r, position)
            /\ StoredCount(userPredictions', sprintPredictions') <= MaxStored
    \/ ToggleColumn(ColumnId("race", 1))

SpecRefresh == Init /\ [][NextRefresh]_vars

-----------------------------------------------------------------------------
(* Properties *)

Concrete(v) == v > 0

\* Within one round of one kind, no two drivers hold the same concrete position.
OneToOne(predictions) ==
    \A r \in DOMAIN predictions :
        \A a \in DOMAIN predictions[r], b \in DOMAIN predictions[r] :
            (a # b /\ Concrete(predictions[r][a]))
                => predictions[r][a] # predictions[r][b]

\* C1: starting from an empty store, after any sequence of race and sprint
\* writes through the swap-on-write setters and of resets, no two distinct
\* drivers hold the same concrete position within a (round, kind).
C1_OneHolderPerPosition ==
    OneToOne(userPredictions) /\ OneToOne(sprintPredictions)

\* C1 witness: a swap has just run, and both a race slot and a sprint slot
\* hold two drivers at concrete positions.
TwoConcrete(predictions) ==
    \E r \in DOMAIN predictions :
        \E a \in DOMAIN predictions[r], b \in DOMAIN predictions[r] :
            a # b /\ Concrete(predictions[r][a]) /\ Concrete(predictions[r][b])

C1_Witness ==
    lastOp = "swap" /\ TwoConcrete(userPredictions) /\ TwoConcrete(sprintPredictions)

\* Driver a holds a concrete position other than q, and driver b holds q.
SwapCase(before, a, b, r, q) ==
    /\ a # b
    /\ HasRound(before, r)
    /\ a \in DOMAIN before[r]
    /\ b \in DOMAIN before[r]
    /\ Concrete(before[r][a])
    /\ before[r][a] # q
    /\ before[r][b] = q

\* Afterwards a holds q, b holds what a held, and nobody else's entry changed.
Exchanged(before, after, a, b, r, q) ==
    /\ after[r][a] = q
    /\ after[r][b] = before[r][a]
    /\ \A c \in Drivers \ {a, b} :
        /\ (c \in DOMAIN after[r]) <=> (c \in DOMAIN before[r])
        /\ (c \in DOMAIN before[r]) => after[r][c] = before[r][c]

\* C2: when A holds p and another driver B holds q (both concrete, p # q) in
\* a (round, kind), writing q for A leaves A at q and B at p (not at null)
\* and every other driver's stored prediction of the slot unchanged.
C2_SwapGivesOldPosition ==
    [][\A a \in Drivers, b \in Drivers, r \in 1..NumRounds, q \in 1..MaxPick :
          /\ (SwapCase(userPredictions, a, b, r, q) /\ UpdatePrediction(a, r, q))
                => Exchanged(userPredictions, userPredictions', a, b, r, q)
          /\ (SwapCase(sprintPredictions, a, b, r, q) /\ UpdateSprintPrediction(a, r, q))
                => Exchanged(sprintPredictions, sprintPredictions', a, b, r, q)]_vars

\* C2 witness: the example, after the swap: d1 was at 1 and d2 at 2, d1 was
\* written 2; a third driver holds an entry of its own.
C2_Witness ==
    /\ lastOp = "swap"
    /\ \E r \in DOMAIN userPredictions :
        /\ DOMAIN userPredictions[r] = Drivers
        /\ userPredictions[r]["d1"] = 2
        /\ userPredictions[r]["d2"] = 1
        /\ userPredictions[r]["d3"] = Null

-----------------------------------------------------------------------------
(* Properties of the totals and of the resolution of a cell *)

Total(driverId, collapsed) ==
    calculateTotalPoints(driverId, AppData, userPredictions, sprintPredictions, collapsed)

\* What a column adds to a driver's total: the total with the column visible
\* less the total with it collapsed, everything else as it is.
Contribution(driverId, type, round) ==
    Total(driverId, collapsedColumns \ {ColumnId(type, round)})
        - Total(driverId, collapsedColumns \cup {ColumnId(type, round)})

Predictions(type) == IF type = "sprint" THEN sprintPredictions ELSE userPredictions

Results(type) == IF type = "sprint" THEN sprintResults ELSE raceResults

Qualifying(type) == IF type = "sprint" THEN sprintQualifyingResults ELSE qualifyingResults

\* The (kind, round) pairs of the schedule: a race per round, a sprint per
\* sprint weekend.
Slots ==
    {<<"race", r>> : r \in ScheduleRounds} \cup {<<"sprint", r>> : r \in SprintRounds}

Resolved(slot) == HasRound(Results(slot[1]), slot[2])

HasEntry(driverId, slot) ==
    Resolved(slot) /\ FindIndex(Results(slot[1])[slot[2]], driverId) # 0

HasPrediction(driverId, slot) ==
    /\ HasRound(Predictions(slot[1]), slot[2])
    /\ driverId \in DOMAIN Predictions(slot[1])[slot[2]]

Predicted(driverId, slot) ==
    getPredictedPosition(driverId, slot[2], slot[1] = "sprint", userPredictions,
        sprintPredictions, qualifyingResults, sprintQualifyingResults, driversData)

TablePoints(slot, position) ==
    IF slot[1] = "sprint" THEN getSprintPoints(position) ELSE getRacePoints(position)

\* C3: a resolved (round, kind) whose result list has no entry for a driver
\* adds nothing to the driver's total; no prediction is used for it.
C3_AbsentDriverAddsNothing ==
    \A d \in Drivers, slot \in Slots :
        (Resolved(slot) /\ ~HasEntry(d, slot)) => Contribution(d, slot[1], slot[2]) = 0

\* The points the resolution of a cell yields: the stored points of an actual
\* result, nothing for a driver who did not take part, and for an unresolved
\* cell the scoring-table value of the predicted position.
ResolvedPoints(driverId, slot) ==
    LET cell == IF slot[1] = "sprint"
                THEN renderSprintCell(driverId, slot[2], AppData,
                                      userPredictions, sprintPredictions)
                ELSE renderRaceCell(driverId, slot[2], AppData,
                                    userPredictions, sprintPredictions)
    IN  CASE cell.cell = "result" ->
                Results(slot[1])[slot[2]][FindIndex(Results(slot[1])[slot[2]], driverId)].points
          [] cell.cell = "dash"   -> 0
          [] cell.cell = "select" ->
                IF GreaterThanZero(cell.position)
                THEN TablePoints(slot, cell.position) ELSE 0

RECURSIVE SumResolved(_, _)
SumResolved(driverId, slots) ==
    IF slots = {}
    THEN 0
    ELSE LET slot == CHOOSE x \in slots : TRUE
         IN  ResolvedPoints(driverId, slot) + SumResolved(driverId, slots \ {slot})

\* C4: the total of a driver is the sum, over exactly the (round, kind) pairs
\* whose column is not collapsed, of the points the resolution of the cell
\* yields; with every column collapsed the total is 0.
C4_TotalIsSumOfVisibleCells ==
    \A d \in Drivers :
        /\ Total(d, collapsedColumns) = SumResolved(d, Slots \ collapsedColumns)
        /\ Total(d, Slots) = 0

\* C5: a driver with an entry in an actual result is resolved to that entry,
\* isActual being true and the points the stored ones, and the total takes
\* exactly the stored points for the column, whatever predictions are stored.
C5_ActualPointsAsStored ==
    \A d \in Drivers, slot \in Slots :
        HasEntry(d, slot) =>
            LET list   == Results(slot[1])[slot[2]]
                entry  == list[FindIndex(list, d)]
                result == IF slot[1] = "sprint"
                          THEN getDriverSprintResult(d, slot[2], sprintResults)
                          ELSE getDriverRaceResult(d, slot[2], raceResults)
            IN  /\ result.isActual
                /\ result.points = entry.points
                /\ Contribution(d, slot[1], slot[2]) = entry.points

\* C5 witness: the table shows a visible resolved column in which a driver
\* has an entry whose points are not the scoring table's, while a concrete
\* prediction is still stored for the driver in that slot.
C5_Witness ==
    /\ container = "table"
    /\ \E d \in Drivers, slot \in Slots \ collapsedColumns :
        /\ HasEntry(d, slot)
        /\ HasPrediction(d, slot)
        /\ Concrete(Predictions(slot[1])[slot[2]][d])
        /\ LET list == Results(slot[1])[slot[2]]
           IN  list[FindIndex(list, d)].points
                    # TablePoints(slot, list[FindIndex(list, d)].position)

\* C6: for an unresolved (round, kind), a driver with an entry in the store
\* is predicted at that entry, 0 when the entry is null, whatever the
\* qualifying order and the championship position are.
C6_StoredEntryWins ==
    \A d \in Drivers, slot \in Slots :
        (~Resolved(slot) /\ HasPrediction(d, slot)) =>
            LET entry == Predictions(slot[1])[slot[2]][d]
            IN  Predicted(d, slot) = IF entry = Null THEN 0 ELSE entry

\* C7: for an unresolved (round, kind) with no stored entry for the driver
\* and a published qualifying order, the predicted position is the driver's
\* qualifying position (its projected points the scoring-table value, 15 for
\* position 3 of a race), and 0 for a driver who is not in the order.
C7_QualifyingDefault ==
    \A d \in Drivers, slot \in Slots :
        (/\ ~Resolved(slot)
         /\ ~HasPrediction(d, slot)
         /\ HasRound(Qualifying(slot[1]), slot[2])) =>
            LET order == Qualifying(slot[1])[slot[2]]
                q     == FindIndex(order, d)
            IN  /\ q # 0 =>
                    /\ Predicted(d, slot) = order[q].position
                    /\ Contribution(d, slot[1], slot[2])
                            = TablePoints(slot, order[q].position)
                    /\ (slot[1] = "race" /\ order[q].position = 3)
                            => Contribution(d, slot[1], slot[2]) = 15
                /\ q = 0 =>
                    /\ Predicted(d, slot) = 0
                    /\ Contribution(d, slot[1], slot[2]) = 0

\* C7 witness: the table shows an unresolved race with a published order in
\* which one driver without stored entry qualified third, and a driver
\* ranked in the top 20 of the championship is not in the order.
C7_Witness ==
    /\ container = "table"
    /\ \E r \in ScheduleRounds \ DOMAIN raceResults :
        /\ ColumnId("race", r) \notin collapsedColumns
        /\ HasRound(qualifyingResults, r)
        /\ \E d \in Drivers :
            /\ ~HasPrediction(d, <<"race", r>>)
            /\ FindIndex(qualifyingResults[r], d) # 0
            /\ qualifyingResults[r][FindIndex(qualifyingResults[r], d)].position = 3
        /\ \E d \in RowDrivers :
            /\ ~HasPrediction(d, <<"race", r>>)
            /\ FindIndex(qualifyingResults[r], d) = 0
            /\ driversData[FindIndex(driversData, d)].position <= 20

\* The driver's position in the standings, 0 when the driver is not in them.
ChampionshipPosition(driverId) ==
    IF FindIndex(driversData, driverId) = 0
    THEN 0
    ELSE driversData[FindIndex(driversData, driverId)].position

NoData(driverId, slot) ==
    /\ ~Resolved(slot)
    /\ ~HasPrediction(driverId, slot)
    /\ ~HasRound(Qualifying(slot[1]), slot[2])

\* C8: for an unresolved (round, kind) with no stored entry and no qualifying
\* data, the predicted position is the championship position when that is at
\* most 20, and 0 when it is above 20 or the driver is not in the standings.
C8_ChampionshipDefault ==
    \A d \in Drivers, slot \in Slots :
        NoData(d, slot) =>
            /\ d \in RowDrivers /\ ChampionshipPosition(d) <= 20
                    => Predicted(d, slot) = ChampionshipPosition(d)
            /\ d \in RowDrivers /\ ChampionshipPosition(d) > 20
                    => Predicted(d, slot) = 0
            /\ d \notin RowDrivers => Predicted(d, slot) = 0

\* C8 witness: the table shows an unresolved race without qualifying data
\* while the standings hold a driver ranked 20th and lack another driver,
\* neither with a stored entry.
C8_Witness ==
    /\ container = "table"
    /\ \E slot \in Slots, d \in RowDrivers, e \in Drivers \ RowDrivers :
        /\ NoData(d, slot)
        /\ NoData(e, slot)
        /\ ChampionshipPosition(d) = 20
        /\ Predicted(d, slot) = 20

\* C9 as claimed: a driver ranked 21st is predicted at 0 for an unresolved
\* round regardless of stored predictions and of the qualifying order.
C9_Ranked21AlwaysZero ==
    \A d \in RowDrivers, slot \in Slots :
        (~Resolved(slot) /\ ChampionshipPosition(d) = 21) => Predicted(d, slot) = 0

\* C9 amended: a driver ranked 21st is predicted at 0 for an unresolved
\* (round, kind) when the store has no entry for the driver in it and no
\* qualifying order is published for it.
C9_Ranked21ZeroByDefault ==
    \A d \in RowDrivers, slot \in Slots :
        (NoData(d, slot) /\ ChampionshipPosition(d) = 21) => Predicted(d, slot) = 0

\* C9 witness: the table shows such a cell: an unresolved column, a driver
\* ranked 21st, no stored entry, no qualifying order.
C9_Witness ==
    /\ container = "table"
    /\ \E d \in RowDrivers, slot \in Slots \ collapsedColumns :
        NoData(d, slot) /\ ChampionshipPosition(d) = 21

\* The largest position the scoring tables are tried with.
MaxPosition == 22

ClaimedRacePoints(p) ==
    CASE p = 1 -> 25 [] p = 2 -> 18 [] p = 3 -> 15 [] p = 4 -> 12 [] p = 5 -> 10
      [] p = 6 -> 8  [] p = 7 -> 6  [] p = 8 -> 4  [] p = 9 -> 2  [] p = 10 -> 1
      [] OTHER -> 0

ClaimedSprintPoints(p) ==
    CASE p = 1 -> 8 [] p = 2 -> 7 [] p = 3 -> 6 [] p = 4 -> 5 [] p = 5 -> 4
      [] p = 6 -> 3 [] p = 7 -> 2 [] p = 8 -> 1
      [] OTHER -> 0

\* C10: getRacePoints gives 25, 18, 15, 12, 10, 8, 6, 4, 2, 1 for positions
\* 1..10 and 0 for position 0 and above 10; getSprintPoints gives 8..1 for
\* positions 1..8 and 0 for position 0 and above 8.  The projected points of
\* every cell shown with a <select> are these values.
C10_ScoringTables ==
    /\ \A p \in 0..MaxPosition :
        /\ getRacePoints(p) = ClaimedRacePoints(p)
        /\ getSprintPoints(p) = ClaimedSprintPoints(p)
    /\ \A d \in Drivers, slot \in Slots :
        (~Resolved(slot) /\ Predicted(d, slot) \in 0..MaxPosition) =>
            Contribution(d, slot[1], slot[2]) =
                IF slot[1] = "sprint" THEN ClaimedSprintPoints(Predicted(d, slot))
                                      ELSE ClaimedRacePoints(Predicted(d, slot))

\* C10 witness: the table shows an unresolved sprint in which one driver is
\* predicted second and another ninth, next to an unresolved race in which a
\* driver is predicted first.
C10_Witness ==
    /\ container = "table"
    /\ \E d \in Drivers, e \in Drivers, r \in SprintRounds \ DOMAIN sprintResults :
        /\ ColumnId("sprint", r) \notin collapsedColumns
        /\ Predicted(d, <<"sprint", r>>) = 2
        /\ Predicted(e, <<"sprint", r>>) = 9
    /\ \E d \in Drivers, r \in ScheduleRounds \ DOMAIN raceResults :
        /\ ColumnId("race", r) \notin collapsedColumns
        /\ Predicted(d, <<"race", r>>) = 1

-----------------------------------------------------------------------------
(* The column toggles *)

Projected == {ColumnId("predicted-points", 0), ColumnId("predicted-standing", 0)}

Gaps == {ColumnId("gap-leader", 0), ColumnId("gap-ahead", 0)}

\* The columns of the table without a result list, and those with one.
UnresolvedColumns == {slot \in Slots : ~Resolved(slot)}

ResolvedColumns == {slot \in Slots : Resolved(slot)}

FutureToggled ==
    toggleAllFuture(collapsedColumns, racesData, raceResults, sprintResults)

PastToggled ==
    toggleAllPast(collapsedColumns, racesData, raceResults, sprintResults)

\* C11: toggleAllFuture collapses every unresolved race and sprint column and
\* the two projected columns when any unresolved column, race or sprint, is
\* visible, expands all of them when none is, and returns true exactly when
\* it collapsed.
C11_ToggleAllFuture ==
    IF UnresolvedColumns \ collapsedColumns # {}
    THEN /\ UnresolvedColumns \cup Projected \subseteq FutureToggled.collapsed
         /\ FutureToggled.returns
    ELSE /\ (UnresolvedColumns \cup Projected) \cap FutureToggled.collapsed = {}
         /\ ~FutureToggled.returns

\* The collapsed set after two calls of toggleAllFuture in a row.
FutureToggledTwice ==
    toggleAllFuture(FutureToggled.collapsed, racesData, raceResults, sprintResults).collapsed

\* C12 as claimed: from any collapsed set, two calls of toggleAllFuture in a
\* row give the collapsed set back.
C12_TwiceRestoresAny ==
    FutureToggledTwice = collapsedColumns

\* The unresolved columns and the two projected columns are all visible, or
\* all collapsed with an unresolved race column among them.
FutureUniform ==
    \/ (UnresolvedColumns \cup Projected) \cap collapsedColumns = {}
    \/ /\ UnresolvedColumns \cup Projected \subseteq collapsedColumns
       /\ \E r \in ScheduleRounds : ~HasRound(raceResults, r)

\* C12 amended: from a collapsed set in which the unresolved columns and the
\* two projected columns are all visible, or all collapsed with an unresolved
\* race column among them, two calls of toggleAllFuture in a row give the
\* collapsed set back.
C12_TwiceRestoresUniform ==
    FutureUniform => FutureToggledTwice = collapsedColumns

\* C12 witness: toggleAllFuture has just collapsed an unresolved race and an
\* unresolved sprint column with the projected columns, a resolved column
\* and a gap column being collapsed too.
C12_Witness ==
    /\ lastOp = "future"
    /\ FutureUniform
    /\ Projected \subseteq collapsedColumns
    /\ \E r \in ScheduleRounds : ~HasRound(raceResults, r)
    /\ \E r \in SprintRounds : ~HasRound(sprintResults, r)
    /\ ResolvedColumns \cap collapsedColumns # {}
    /\ Gaps \cap collapsedColumns # {}

\* C13: toggleAllPast collapses every resolved race and sprint column when
\* any resolved column, race or sprint, is visible, expands all of them when
\* none is, and returns true exactly when it collapsed.
C13_ToggleAllPast ==
    IF ResolvedColumns \ collapsedColumns # {}
    THEN /\ ResolvedColumns \subseteq PastToggled.collapsed
         /\ PastToggled.returns
    ELSE /\ ResolvedColumns \cap PastToggled.collapsed = {}
         /\ ~PastToggled.returns

\* The keys are collapsed after the step exactly when they were before it.
SameMembership(keys) ==
    \A key \in keys : (key \in collapsedColumns') <=> (key \in collapsedColumns)

C15_PastLeavesUnresolvedAndSynthetic ==
    [][ToggleAllPast => SameMembership(UnresolvedColumns \cup SyntheticColumns)]_vars

\* C15 witness: toggleAllPast has just collapsed the resolved columns of a
\* table that has a visible and a collapsed unresolved column, a collapsed
\* projected-points column and a collapsed gap column.
C15_Witness ==
    /\ lastOp = "past"
    /\ ResolvedColumns # {}
    /\ ResolvedColumns \subseteq collapsedColumns
    /\ UnresolvedColumns \cap collapsedColumns # {}
    /\ UnresolvedColumns \ collapsedColumns # {}
    /\ ColumnId("predicted-points", 0) \in collapsedColumns
    /\ ColumnId("predicted-standing", 0) \notin collapsedColumns
    /\ Gaps \cap collapsedColumns # {}

-----------------------------------------------------------------------------
(* The order of the columns *)

\* The columns in the order renderHeader and renderBody walk them.
OrderedColumns ==
    getOrderedColumns(racesData, raceResults, sprintResults, collapsedColumns)

\* Column a comes before column b in the schedule: an earlier round, or the
\* sprint of the same round.
Chronological(a, b) ==
    \/ a.round < b.round
    \/ a.round = b.round /\ a.type = "sprint" /\ b.type = "race"

\* The rounds of the race columns, in the order of the list.
RaceOrder(columns) ==
    LET races == SelectSeq(columns, LAMBDA col : col.type = "race")
    IN  [i \in 1..Len(races) |-> races[i].round]

\* C16: getOrderedColumns returns every race column and every sprint column
\* of a sprint round exactly once, the visible columns before the collapsed
\* ones, each of the two parts in schedule order with the sprint column of a
\* round before its race column; rounds 1, 2, 3 with only the race column of
\* round 2 collapsed give the race order 1, 3, 2.
C16_OrderedColumns ==
    LET cols == OrderedColumns
    IN  /\ Len(cols) = Cardinality(Slots)
        /\ {<<cols[i].type, cols[i].round>> : i \in 1..Len(cols)} = Slots
        /\ \A i \in 1..Len(cols) :
                cols[i].isCollapsed <=> ColumnId(cols[i].type, cols[i].round) \in collapsedColumns
        /\ \A i \in 1..Len(cols), j \in 1..Len(cols) :
                i < j =>
                    /\ cols[i].isCollapsed => cols[j].isCollapsed
                    /\ cols[i].isCollapsed = cols[j].isCollapsed
                            => Chronological(cols[i], cols[j])
        /\ (/\ ScheduleRounds = {1, 2, 3}
            /\ {r \in ScheduleRounds : ColumnId("race", r) \in collapsedColumns} = {2})
                => RaceOrder(cols) = <<1, 3, 2>>

\* C16 witness: the table shows rounds 1, 2 and 3 with the sprint and the
\* race column of round 2 collapsed and the other race columns visible, the
\* columns being walked in the order race 1, race 3, sprint 2, race 2.
C16_Witness ==
    /\ container = "table"
    /\ ScheduleRounds = {1, 2, 3}
    /\ collapsedColumns \cap Slots = {ColumnId("sprint", 2), ColumnId("race", 2)}
    /\ [i \in 1..Len(OrderedColumns) |-> <<OrderedColumns[i].type, OrderedColumns[i].round>>]
            = <<ColumnId("race", 1), ColumnId("race", 3),
                ColumnId("sprint", 2), ColumnId("race", 2)>>

-----------------------------------------------------------------------------
(* Retirements *)

\* The result list of the slot has an entry for the driver marked retired.
Retired(driverId, slot) ==
    /\ HasEntry(driverId, slot)
    /\ LET list == Results(slot[1])[slot[2]]
       IN  list[FindIndex(list, driverId)].positionText = "R"

CellOf(driverId, slot) ==
    IF slot[1] = "sprint"
    THEN renderSprintCell(driverId, slot[2], AppData, userPredictions, sprintPredictions)
    ELSE renderRaceCell(driverId, slot[2], AppData, userPredictions, sprintPredictions)

\* C17: a driver whose entry in the results of a resolved round has
\* positionText 'R' is resolved to position 0, points 0 and isActual true,
\* and the cell shows the result (DNF), never the dash of a driver who did
\* not take part.
C17_RetiredIsActualDNF ==
    \A d \in Drivers, slot \in Slots :
        Retired(d, slot) =>
            LET result == IF slot[1] = "sprint"
                          THEN getDriverSprintResult(d, slot[2], sprintResults)
                          ELSE getDriverRaceResult(d, slot[2], raceResults)
            IN  /\ result = [isActual |-> TRUE, position |-> 0, points |-> 0]
                /\ CellOf(d, slot) = [cell |-> "result", position |-> 0]
                /\ Contribution(d, slot[1], slot[2]) = 0

\* C17 witness: the table shows a visible resolved race in which one driver
\* of the standings retired from a listed position other than 0 and another
\* driver of the standings did not take part.
C17_Witness ==
    /\ container = "table"
    /\ \E d \in RowDrivers, e \in RowDrivers, r \in ScheduleRounds :
        /\ ColumnId("race", r) \notin collapsedColumns
        /\ Retired(d, <<"race", r>>)
        /\ raceResults[r][FindIndex(raceResults[r], d)].position > 0
        /\ Resolved(<<"race", r>>)
        /\ ~HasEntry(e, <<"race", r>>)
        /\ CellOf(e, <<"race", r>>).cell = "dash"

-----------------------------------------------------------------------------
(* The data refresh *)

\* The steps of loadData change the number of calls awaiting loadAllData:
\* the call up to its await raises it, the settlement of loadAllData lowers it.
RefreshStep == inFlight' # inFlight

\* C18: no step of a refresh, successful or failed, changes the stored race
\* predictions, the stored sprint predictions or the collapsed set; the
\* predictions change only in a prediction write or a reset, the collapsed
\* set only in a column toggle.
C18_RefreshKeepsPredictionsAndColumns ==
    [][/\ RefreshStep =>
            UNCHANGED <<userPredictions, sprintPredictions, collapsedColumns>>
       /\ (userPredictions' # userPredictions \/ sprintPredictions' # sprintPredictions) =>
            \/ ResetPredictions
            \/ \E d \in Drivers, r \in ScheduleRounds, position \in 0..MaxPick :
                    UpdatePrediction(d, r, position) \/ UpdateSprintPrediction(d, r, position)
       /\ collapsedColumns' # collapsedColumns =>
            \/ ToggleAllFuture
            \/ ToggleAllPast
            \/ \E columnId \in HeaderColumns : ToggleColumn(columnId)]_vars

\* C18 witness: the table shows standings that lack a driver for whom a
\* concrete race prediction is stored (the prediction was written before the
\* refresh that brought these standings), with a column collapsed.
C18_Witness ==
    /\ container = "table"
    /\ inFlight = 0
    /\ collapsedColumns # {}
    /\ \E d \in Drivers \ RowDrivers, r \in ScheduleRounds :
        /\ HasPrediction(d, <<"race", r>>)
        /\ Concrete(userPredictions[r][d])

\* C19: a refresh whose loadAllData rejects reports the error and leaves the
\* standings, the schedule, the results, the qualifying data, the predictions
\* and the collapsed set as they are; the start of a refresh leaves them as
\* they are too.
C19_FailedRefreshKeepsState ==
    [][/\ inFlight' > inFlight =>
            UNCHANGED <<dataVars, userPredictions, sprintPredictions, collapsedColumns>>
       /\ (inFlight' < inFlight /\ container' # "table") =>
            /\ container' = "error"
            /\ UNCHANGED <<dataVars, userPredictions, sprintPredictions, collapsedColumns>>]_vars

\* C19 witness: the error is shown while standings, schedule, results and
\* qualifying data of an earlier refresh, a stored prediction and a collapsed
\* column are all in place.
C19_Witness ==
    /\ container = "error"
    /\ inFlight = 0
    /\ Len(driversData) > 0
    /\ Len(racesData) > 0
    /\ DOMAIN raceResults # {}
    /\ DOMAIN qualifyingResults # {}
    /\ StoredCount(userPredictions, sprintPredictions) > 0
    /\ collapsedColumns # {}

-----------------------------------------------------------------------------
(* The positions shown selected *)

\* C20: in every unresolved (round, kind) no two drivers of the table are
\* shown at the same predicted position greater than 0, whether the position
\* was entered or comes from the qualifying order or the championship.
C20_NoSharedShownPosition ==
    \A slot \in UnresolvedColumns, d \in RowDrivers, e \in RowDrivers :
        (d # e /\ GreaterThanZero(Predicted(d, slot))) => Predicted(d, slot) # Predicted(e, slot)

-----------------------------------------------------------------------------
(* Selections *)

Stored(driverId, slot) == Predictions(slot[1])[slot[2]][driverId]

\* The step is the change handler of the <select> of the driver in the slot,
\* run with the option `position`.
Selects(driverId, slot, position) ==
    IF slot[1] = "sprint"
    THEN UpdateSprintPrediction(driverId, slot[2], position)
    ELSE UpdatePrediction(driverId, slot[2], position)

\* C21: when position n is selected for driver a in an unresolved slot in
\* which driver b has n stored, a is afterwards predicted at n and b at the
\* position a was predicted at before, entered or default.
C21_SwapTakesShownPosition ==
    [][\A slot \in UnresolvedColumns, a \in Drivers, b \in Drivers, n \in 1..MaxPick :
            (/\ a # b
             /\ HasPrediction(b, slot)
             /\ Stored(b, slot) = n
             /\ Predicted(a, slot) # n
             /\ Selects(a, slot, n))
                => /\ Predicted(a, slot)' = n
                   /\ Predicted(b, slot)' = Predicted(a, slot)]_vars

\* The entry of a driver in a round of a mapping: whether there is one, and
\* its value.
EntryOf(predictions, round, driverId) ==
    IF HasRound(predictions, round) /\ driverId \in DOMAIN predictions[round]
    THEN <<TRUE, predictions[round][driverId]>>
    ELSE <<FALSE, 0>>

\* The entries of the mapping other than the one of the driver in the round
\* are after the step what they were before it.
OthersKept(type, round, driverId) ==
    \A r \in 1..NumRounds, d \in Drivers :
        (r # round \/ d # driverId) =>
            EntryOf(Predictions(type)', r, d) = EntryOf(Predictions(type), r, d)

OtherKind(type) == IF type = "sprint" THEN "race" ELSE "sprint"

\* C22: selecting '-' (0, stored as null) for a driver swaps nothing: no
\* entry of another driver changes in any round of either kind, and the
\* driver is afterwards predicted at 0, holding no concrete position.
C22_ClearingSwapsNothing ==
    [][\A slot \in UnresolvedColumns, a \in Drivers :
            Selects(a, slot, 0) =>
                /\ OthersKept(slot[1], slot[2], a)
                /\ Predictions(OtherKind(slot[1]))' = Predictions(OtherKind(slot[1]))
                /\ EntryOf(Predictions(slot[1])', slot[2], a) = <<TRUE, Null>>
                /\ Predicted(a, slot)' = 0]_vars

\* C22 witness: in an unresolved slot without qualifying order a driver
\* ranked in the top 20 has the null entry of a cleared prediction while
\* another driver has a concrete position stored.
C22_Witness ==
    /\ container = "table"
    /\ \E slot \in UnresolvedColumns, a \in RowDrivers, b \in Drivers :
        /\ a # b
        /\ ~HasRound(Qualifying(slot[1]), slot[2])
        /\ ChampionshipPosition(a) \in 1..20
        /\ EntryOf(Predictions(slot[1]), slot[2], a) = <<TRUE, Null>>
        /\ HasPrediction(b, slot)
        /\ Concrete(Stored(b, slot))

\* C25: for every driver and every unresolved (round, kind),
\* getPredictedPosition returns an integer that is 0 or a position from 1
\* up, never undefined or NaN.
C25_PredictedPositionDefined ==
    \A slot \in UnresolvedColumns, d \in Drivers : Predicted(d, slot) \in Nat

-----------------------------------------------------------------------------
(* The standings *)

\* The place of the driver in the standings list the rows are made from.
InputPlace(driverId) == FindIndex(driversData, driverId)

\* C24: the rows render produces hold every driver of the standings exactly
\* once with the driver's calculated total, in descending order of the
\* totals, drivers with equal totals in the order of the standings list.
C24_RowsSortedStable ==
    LET rows == renderTable
    IN  /\ Len(rows) = Len(driversData)
        /\ \A d \in RowDrivers :
                Cardinality({i \in 1..Len(rows) : rows[i].driverId = d}) = 1
        /\ \A i \in 1..Len(rows) :
                rows[i].calculatedPoints = Total(rows[i].driverId, collapsedColumns)
        /\ \A i \in 1..Len(rows), j \in 1..Len(rows) :
                i < j =>
                    /\ rows[i].calculatedPoints >= rows[j].calculatedPoints
                    /\ rows[i].calculatedPoints = rows[j].calculatedPoints
                            => InputPlace(rows[i].driverId) < InputPlace(rows[j].driverId)

\* C24 witness: the table shows three rows of which two have equal totals,
\* and a driver placed lower in the standings list is in a row above a
\* driver placed higher.
C24_Witness ==
    /\ container = "table"
    /\ Len(renderTable) = 3
    /\ \E i \in 1..3, j \in 1..3 :
        i < j /\ renderTable[i].calculatedPoints = renderTable[j].calculatedPoints
    /\ \E i \in 1..3, j \in 1..3 :
        i < j /\ InputPlace(renderTable[i].driverId) > InputPlace(renderTable[j].driverId)

-----------------------------------------------------------------------------
(* Import and export *)

\* What a data object carries: its mappings, a missing one carrying nothing.
Carried(data) ==
    [userPredictions   |-> IF data.hasUser THEN data.userPredictions ELSE EmptyPredictions,
     sprintPredictions |-> IF data.hasSprint THEN data.sprintPredictions ELSE EmptyPredictions]

\* C23: after importPredictions(data) the race and the sprint mapping of the
\* store are exactly what data carries, nothing of the mappings held before
\* remaining, also when data carries one mapping only or an empty one; the
\* positions are taken as they are.
C23_ImportOverwritesWholesale ==
    [][\A data \in ImportChoices :
            ImportPredictions(data, FALSE) =>
                /\ userPredictions' = Carried(data).userPredictions
                /\ sprintPredictions' = Carried(data).sprintPredictions]_vars

-----------------------------------------------------------------------------
(* One swap per write *)

\* The other drivers whose stored entry in the slot parses to position n.
HoldersOf(slot, driverId, n) ==
    {d \in Drivers \ {driverId} :
        HasPrediction(d, slot) /\ n > 0 /\ parseInt(Stored(d, slot)) = n}

\* The drivers whose entry in the slot is not after the step what it was.
Changed(slot) ==
    {d \in Drivers :
        EntryOf(Predictions(slot[1])', slot[2], d) # EntryOf(Predictions(slot[1]), slot[2], d)}

\* C28: a prediction write changes the stored entries of at most two
\* drivers, the writer and one other holder of the written position; when
\* several other drivers hold it, all but one keep it, and the one
\* reassigned gets the writer's old entry whoever else holds that position.
C28_OneSwapPerWrite ==
    [][\A slot \in UnresolvedColumns, a \in Drivers, n \in 0..MaxPick :
            Selects(a, slot, n) =>
                LET holders == HoldersOf(slot, a, n)
                    others  == Changed(slot) \ {a}
                    old     == EntryOf(Predictions(slot[1]), slot[2], a)
                IN  /\ Cardinality(others) <= 1
                    /\ others \subseteq holders
                    /\ holders # {} =>
                        \E h \in holders :
                            /\ EntryOf(Predictions(slot[1])', slot[2], h)
                                    = <<TRUE, IF old[1] THEN old[2] ELSE Undefined>>
                            /\ \A g \in holders \ {h} :
                                    parseInt(Predictions(slot[1])'[slot[2]][g]) = n]_vars

\* C28 witness: a swap has just been made in a slot in which three drivers
\* have concrete positions stored, two of them the same one.
C28_Witness ==
    /\ lastOp = "swap"
    /\ \E slot \in UnresolvedColumns, a \in Drivers, b \in Drivers, c \in Drivers :
        /\ Cardinality({a, b, c}) = 3
        /\ \A d \in {a, b, c} : HasPrediction(d, slot) /\ Concrete(Stored(d, slot))
        /\ Stored(a, slot) = Stored(b, slot)
        /\ Stored(c, slot) # Stored(a, slot)

-----------------------------------------------------------------------------
(* The frame of a write *)

\* The rounds a mapping of the store can have entries for.
StoredRounds(type) == DOMAIN Predictions(type) \cup DOMAIN Predictions(type)' \cup (1..NumRounds)

\* The mapping of the kind is after the step what it was in every round but
\* the given one.
OtherRoundsKept(type, round) ==
    \A r \in StoredRounds(type) \ {round}, d \in Drivers :
        EntryOf(Predictions(type)', r, d) = EntryOf(Predictions(type), r, d)

\* C29: a write of a race prediction for round r changes the race mapping of
\* round r only, leaving the sprint predictions, the race predictions of the
\* other rounds and the collapsed set as they are; a write of a sprint
\* prediction does the same with the two kinds exchanged.
C29_WriteTouchesOneSlot ==
    [][\A slot \in UnresolvedColumns, a \in Drivers, n \in 0..MaxPick :
            Selects(a, slot, n) =>
                /\ Predictions(OtherKind(slot[1]))' = Predictions(OtherKind(slot[1]))
                /\ OtherRoundsKept(slot[1], slot[2])
                /\ collapsedColumns' = collapsedColumns]_vars

\* C29 witness: a swap has just been made in the race mapping of a round
\* while the race mapping has an entry for another round and a column is
\* collapsed.
C29_Witness ==
    /\ lastOp = "swap"
    /\ collapsedColumns # {}
    /\ \E r \in DOMAIN userPredictions, q \in DOMAIN userPredictions :
        /\ r # q
        /\ <<"race", r>> \in UnresolvedColumns
        /\ \E d \in DOMAIN userPredictions[r] : Concrete(userPredictions[r][d])
        /\ \E d \in DOMAIN userPredictions[q] : Concrete(userPredictions[q][d])

-----------------------------------------------------------------------------
(* The exported object *)

\* The two mappings as the holder of the exported object reads them.
ExportedMappings == <<exported.userPredictions, exported.sprintPredictions>>

\* C30: the object exportPredictions returns is a snapshot: it holds the two
\* mappings of the store as they are at the export, no later step other
\* than a new export changes what it holds, and importing it makes the store
\* hold exactly that, so that export, writes, import brings the predictions
\* of the export back.
C30_ExportIsSnapshot ==
    [][/\ ExportPredictions => ExportedMappings' = <<userPredictions, sprintPredictions>>
       /\ (exported.taken /\ ~ExportPredictions) => ExportedMappings' = ExportedMappings
       /\ (exported.taken /\ ImportPredictions(ExportedData, TRUE)) =>
                <<userPredictions, sprintPredictions>>' = ExportedMappings]_vars

-----------------------------------------------------------------------------
(* The atomic refresh *)

\* The inputs of the core as a load leaves them.
InputsOf(data) ==
    <<DriversOf(data.standings), data.races, data.raceResults, data.sprintResults,
      data.qualifyingResults, data.sprintQualifyingResults>>

NoInputs == <<<<>>, <<>>, NoRounds, NoRounds, NoRounds, NoRounds>>

\* C26: in every state, so whenever renderTable, a prediction write or a
\* toggle handler runs, and with any number of loadData calls awaiting their
\* data, the standings, the schedule, the results and the qualifying data
\* are those of one completed load, all six of them, or are all still the
\* empty ones of the constructor when no load has completed.
C26_InputsOfOneLoad ==
    \/ dataVars = NoInputs
    \/ \E data \in Loads : dataVars = InputsOf(data)

\* C26 witness: two calls of loadData await their data while the table of an
\* earlier load stands with a resolved race, qualifying data of another round,
\* a stored prediction and a collapsed column: a write and a toggle have run
\* on the data of that load.
C26_Witness ==
    /\ inFlight = MaxInFlight
    /\ DOMAIN raceResults # {}
    /\ DOMAIN qualifyingResults # {}
    /\ StoredCount(userPredictions, sprintPredictions) > 0
    /\ collapsedColumns # {}

\* C27: a refresh during which the request for the results of a round throws
\* leaves every (round, kind) that was resolved before it resolved, with the
\* same results, whenever the provider has the session as held.
C27_FailedRequestKeepsResolved ==
    [][\A progress \in 0..MaxProgress, k \in StandingsChoices,
          failed \in RequestFailures \ {{}} :
            LoadComplete(loadAllData(FailingProvider(progress, k, failed))) =>
                \A slot \in Slots :
                    (/\ Resolved(slot)
                     /\ IF slot[1] = "sprint" THEN SprintHeld(slot[2], progress)
                                              ELSE RaceHeld(slot[2], progress)) =>
                        /\ Resolved(slot)'
                        /\ Results(slot[1])'[slot[2]] = Results(slot[1])[slot[2]]]_vars

====
